---- MODULE Spec2Model ----
(***************************************************************************)
(* Model of the Matrix Lab Runner (src/runner/app): the Job Runner         *)
(* run_job, the Artifact Packer _zip_dir_to_base64 and the POST /run       *)
(* handler, together with the parts of their environment they act on: the  *)
(* Runner's filesystem, the container runtime and the sandbox containers.  *)
(*                                                                         *)
(* A string is a sequence of tokens, a path a sequence of components, and  *)
(* a component is a string.                                                *)
(***************************************************************************)
EXTENDS FiniteSets, Integers, Sequences, TLC

(***************************************************************************)
(* Bounds                                                                  *)
(***************************************************************************)
NJobs == 2          \* POST /run requests in flight
MaxSteps == 2       \* longest steps list of a request
NPre == 1           \* values of the first 8 hex digits of a uuid
NHex == 1           \* values of uuid4().hex[:4]
MaxOps == 2         \* operations of the sandbox containers, all together
MaxFaults == 1      \* failures of the Runner's own system calls, all together

Jobs == 1..NJobs

\* Optional[...]: None, or a value
None == <<>>
Some(v) == <<v>>

(***************************************************************************)
(* Strings and paths                                                       *)
(***************************************************************************)
Min(a, b) == IF a < b THEN a ELSE b

\* s[:n]
Take(s, n) == SubSeq(s, 1, Min(Len(s), n))

Last(s) == s[Len(s)]

IsPrefix(a, p) == Len(a) <= Len(p) /\ SubSeq(p, 1, Len(a)) = a

\* os.path.join(a, b) for a relative b
Join(a, b) == a \o b

\* os.path.dirname(p)
Dirname(p) == SubSeq(p, 1, Len(p) - 1)

\* length of the longest common prefix of two paths
RECURSIVE CommonLen(_, _)
CommonLen(p, q) ==
    IF p = <<>> \/ q = <<>> \/ Head(p) # Head(q) THEN 0
    ELSE 1 + CommonLen(Tail(p), Tail(q))

RECURSIVE Ups(_)
Ups(n) == IF n = 0 THEN <<>> ELSE << <<"..">> >> \o Ups(n - 1)

\* os.path.relpath(p, start)
RelPath(p, start) ==
    LET c == CommonLen(p, start)
    IN  Ups(Len(start) - c) \o SubSeq(p, c + 1, Len(p))

(***************************************************************************)
(* uuid4 and the other random names.  A uuid is <<first 8 hex digits,      *)
(* remaining digits>>.                                                     *)
(***************************************************************************)
PreTok == <<"1f0e9a3c", "7b22d4e8", "c05a6f91", "e3d4b5a6">>
TailTok == <<"-4a1b-8c2d", "-4e3f-9a4b", "-4c5d-ab6e", "-4f7a-bc8d">>
HexTok == <<"0f3a", "7c21", "b9e4", "d5a6">>
TmpTok == <<"k3x9q2", "w7zt4m", "h8v1rc">>

\* Of a random name only its being equal to another one matters, so a draw
\* is one of the values drawn before or the first value not drawn yet.
Draws(n, drawn) == 1..Min(n, 1 + Cardinality(drawn))

\* uuid.uuid4() when the uuids of used were returned before: a uuid not in
\* used.  Its first 8 digits may be those of a used one; of the remaining
\* digits only their being different matters, and the first unused value
\* stands for all.
Uuid4(used) ==
    {<<PreTok[i], TailTok[1 + Cardinality({u \in used : u[1] = PreTok[i]})]>> :
        i \in Draws(NPre, {u[1] : u \in used})}

\* uuid.uuid4().hex[:4] when the values of drawn were drawn before
Hex4(drawn) == {HexTok[i] : i \in Draws(NHex, drawn)}

\* job_id[:8]
First8(u) == Take(u, 1)

(***************************************************************************)
(* The filesystem as the Runner sees it: a function from absolute paths to *)
(* entries.  An entry is a directory, a regular file or a symbolic link.   *)
(***************************************************************************)
NoData == [tag |-> "", name |-> <<>>, code |-> 0, owner |-> 0]

DirEntry == [kind |-> "dir", data |-> NoData, target |-> <<>>]
FileEntry(d) == [kind |-> "file", data |-> d, target |-> <<>>]
LinkEntry(t) == [kind |-> "symlink", data |-> NoData, target |-> t]

Exists(f, p) == p \in DOMAIN f

Put(f, p, e) == [q \in DOMAIN f \cup {p} |-> IF q = p THEN e ELSE f[q]]

\* removes p and everything below it
Remove(f, p) == [q \in {r \in DOMAIN f : ~IsPrefix(p, r)} |-> f[q]]

\* os.makedirs(p, exist_ok=True)
RECURSIVE MakeDirs(_, _)
MakeDirs(f, p) ==
    IF p = <<>> \/ Exists(f, p) THEN f
    ELSE Put(MakeDirs(f, Dirname(p)), p, DirEntry)

\* the random part of a name tempfile makes, when the names made with the
\* parts of taken exist: a part not in taken
MkTemp(taken) ==
    TmpTok[CHOOSE i \in 1..Len(TmpTok) :
              /\ TmpTok[i] \notin taken
              /\ \A k \in 1..(i - 1) : TmpTok[k] \in taken]

\* what a path names after following symbolic links (os.stat): a path of
\* the filesystem, or an errno
LinkFuel == 3

ENOENT == << <<"ENOENT">> >>
ELOOP == << <<"ELOOP">> >>

RECURSIVE Resolve(_, _, _)
Resolve(f, p, fuel) ==
    IF ~Exists(f, p) THEN ENOENT
    ELSE IF f[p].kind # "symlink" THEN p
    ELSE IF fuel = 0 THEN ELOOP
    ELSE Resolve(f, f[p].target, fuel - 1)

Errno(r) == r \in {ENOENT, ELOOP}

\* os.stat(p) raises: FileNotFoundError or OSError
StatFails(f, p) == Errno(Resolve(f, p, LinkFuel))

\* DirEntry.is_dir(), which follows symbolic links
IsDir(f, p) ==
    LET r == Resolve(f, p, LinkFuel)
    IN  ~Errno(r) /\ f[r].kind = "dir"

\* the files os.walk(top) yields, as os.path.join(root, f): every entry
\* below top that is not a directory; a symbolic link to a directory is
\* listed with the directories and not descended into
WalkFiles(f, top) ==
    IF ~IsDir(f, top) THEN {}
    ELSE {p \in DOMAIN f :
            /\ IsPrefix(top, p) /\ p # top
            /\ \A n \in (Len(top) + 1)..(Len(p) - 1) :
                  Exists(f, SubSeq(p, 1, n)) /\ f[SubSeq(p, 1, n)].kind = "dir"
            /\ ~IsDir(f, p)}

(***************************************************************************)
(* Artifact Packer                                                         *)
(***************************************************************************)
ZipData == [tag |-> "zip", name |-> <<>>, code |-> 0, owner |-> 0]

\* tempfile.mkstemp(suffix=".zip", dir=base_dir)
TmpZip(base_dir, rnd) == Join(base_dir, << <<"tmp", rnd, ".zip">> >>)

\* the ZipFile built by the walk: arcname -> bytes read by z.write, which
\* opens abs_path and so reads through a symbolic link
ZipEntries(f, dir_path) ==
    LET files == WalkFiles(f, dir_path)
    IN  [rel \in {RelPath(p, dir_path) : p \in files} |->
            LET abs_path == CHOOSE p \in files : RelPath(p, dir_path) = rel
            IN  f[Resolve(f, abs_path, LinkFuel)].data]

\* base64.b64encode(f.read()).decode("utf-8")
B64(zip) == [encoding |-> "base64", zip |-> zip]

\* ZipDirToBase64 of a packer with no finally: it removes the zip only
\* on its way to return
ZipDirToBase64NoFinally(f, dir_path, io_ok) ==
    LET base_dir == Dirname(dir_path)
        taken == {TmpTok[i] : i \in {k \in DOMAIN TmpTok :
                                        Exists(f, TmpZip(base_dir, TmpTok[k]))}}
        zip_path == TmpZip(base_dir, MkTemp(taken))
        f1 == Put(f, zip_path, FileEntry(ZipData))
        files == WalkFiles(f1, dir_path)
        bad == {p \in files : StatFails(f1, p)}
    IN  IF ~io_ok
        THEN [raised |-> TRUE, error |-> <<"OSError", "mkstemp">>,
              value |-> B64(<<>>), fs |-> f]
        ELSE IF bad # {}
        THEN [raised |-> TRUE, error |-> <<"FileNotFoundError", "z.write">>,
              value |-> B64(<<>>), fs |-> f1]
        ELSE [raised |-> FALSE, error |-> <<>>,
              value |-> B64(ZipEntries(f1, dir_path)),
              fs |-> Remove(f1, zip_path)]

\* _zip_dir_to_base64(dir_path): the value returned or the exception
\* raised, and the filesystem it leaves.  io_ok: mkstemp and the writes to
\* the zip succeed.
ZipDirToBase64(f, dir_path, io_ok) ==
    LET base_dir == Dirname(dir_path)
        taken == {TmpTok[i] : i \in {k \in DOMAIN TmpTok :
                                        Exists(f, TmpZip(base_dir, TmpTok[k]))}}
        zip_path == TmpZip(base_dir, MkTemp(taken))
        f1 == Put(f, zip_path, FileEntry(ZipData))
        files == WalkFiles(f1, dir_path)
        bad == {p \in files : StatFails(f1, p)}
    IN  IF ~io_ok
        THEN [raised |-> TRUE, error |-> <<"OSError", "mkstemp">>,
              value |-> B64(<<>>), fs |-> f]
        ELSE IF bad # {}
        THEN [raised |-> TRUE, error |-> <<"FileNotFoundError", "z.write">>,
              value |-> B64(<<>>), fs |-> Remove(f1, zip_path)]
        ELSE [raised |-> FALSE, error |-> <<>>,
              value |-> B64(ZipEntries(f1, dir_path)),
              fs |-> Remove(f1, zip_path)]

(***************************************************************************)
(* Python values of the timeout handler: str, bytes and None               *)
(***************************************************************************)
PyNone == [type |-> "NoneType", val |-> <<>>]
PyStr(v) == [type |-> "str", val |-> v]
PyBytes(v) == [type |-> "bytes", val |-> v]

\* x or d
PyOr(x, d) == IF x.type = "NoneType" \/ x.val = <<>> THEN d ELSE x

\* a + b raises TypeError when one operand is bytes and the other str
AddRaises(a, b) == a.type # b.type

\* a + b
PyAdd(a, b) == [type |-> a.type, val |-> a.val \o b.val]

(***************************************************************************)
(* Requests (models.py)                                                    *)
(***************************************************************************)
StepNames == {<<"a">>, <<"b">>}

\* NetworkMode
NetworkModes == {"none", "egress"}

\* the command of a step that a client did not vary
DefaultCommand == <<"make test">>

\* class Step: command and env are strings and a dict of strings, the
\* dict a sequence of its items in insertion order
Step(name, network, command, env) ==
    [name |-> name, network |-> network, command |-> command, env |-> env]

\* a step with the one command and no env
PlainStep(name, network) == Step(name, network, DefaultCommand, <<>>)

RECURSIVE SeqsUpTo(_, _)
SeqsUpTo(S, n) ==
    IF n = 0 THEN {<<>>}
    ELSE LET shorter == SeqsUpTo(S, n - 1)
         IN  shorter \cup {Append(s, x) : s \in {t \in shorter : Len(t) = n - 1}, x \in S}

\* str(x) of a number: its numeral, a string of one token
Str(x) == <<x>>

\* cpu_limit, mem_limit_mb and pids_limit: the defaults of class RunRequest,
\* and limits a client chose
DefaultLimits == [cpu_limit |-> 1, mem_limit_mb |-> 1024, pids_limit |-> 256]
Limits == {DefaultLimits, [cpu_limit |-> 2, mem_limit_mb |-> 512, pids_limit |-> 64]}

DefaultImage == <<"matrix-lab-sandbox-python:latest">>

\* class RunRequest
RunRequest(steps, limits) ==
    [steps |-> steps,
     cpu_limit |-> limits.cpu_limit,
     mem_limit_mb |-> limits.mem_limit_mb,
     pids_limit |-> limits.pids_limit,
     sandbox_image |-> DefaultImage]

\* the requests that leave network and the limits at their defaults
RunRequests ==
    {RunRequest(ss, DefaultLimits) :
        ss \in SeqsUpTo({PlainStep(n, "none") : n \in StepNames}, MaxSteps)}

\* the requests with any network modes and limits
ApiRequests ==
    {RunRequest(ss, l) :
        ss \in SeqsUpTo({PlainStep(n, w) : n \in StepNames, w \in NetworkModes}, MaxSteps),
        l \in Limits}

\* JSON bodies of POST /run that lack a required field of RunRequest or of
\* Step; a field is None when the body does not have it
RepoUrl == <<"https://example.org/repo.git">>

BadBodies ==
    {[repo_url |-> None, steps |-> Some(<<>>)],
     [repo_url |-> Some(RepoUrl), steps |-> None],
     [repo_url |-> Some(RepoUrl),
      steps |-> Some(<<[name |-> None, command |-> Some(<<"make">>)]>>)],
     [repo_url |-> Some(RepoUrl),
      steps |-> Some(<<[name |-> Some(<<"a">>), command |-> None]>>)]}

\* the required fields (models.py: those without a default) a body lacks
MissingFields(b) ==
    (IF b.repo_url = None THEN {<<"body", "repo_url">>} ELSE {})
    \cup (IF b.steps = None THEN {<<"body", "steps">>}
          ELSE UNION {(IF b.steps[1][i].name = None
                       THEN {<<"body", "steps", "name">>} ELSE {})
                      \cup (IF b.steps[1][i].command = None
                            THEN {<<"body", "steps", "command">>} ELSE {}) :
                      i \in DOMAIN b.steps[1]})

\* StepResult with the arguments name and stdout taken for each other
StepResultSwapped(name, exit_code, stdout, stderr) ==
    [name |-> stdout, exit_code |-> exit_code, stdout |-> name, stderr |-> stderr]

\* class StepResult
StepResult(name, exit_code, stdout, stderr) ==
    [name |-> name, exit_code |-> exit_code, stdout |-> stdout, stderr |-> stderr]

(***************************************************************************)
(* Preflight                                                               *)
(***************************************************************************)
RuntimeStates == [binary : BOOLEAN, socket : BOOLEAN, daemon : BOOLEAN]

NoBinary == <<"Runner cannot find the 'docker' binary.">>
NoSocket == <<"Runner cannot see /var/run/docker.sock.">>
NoDaemon == <<"Runner can execute docker CLI but cannot talk to Docker daemon.">>

\* RunnerPreflight that looks for the socket before the binary
RunnerPreflightSocketFirst(rt) ==
    IF ~rt.socket THEN NoSocket
    ELSE IF ~rt.binary THEN NoBinary
    ELSE IF ~rt.daemon THEN NoDaemon
    ELSE <<>>

\* runner_preflight(): <<>> when it returns, the RuntimeError message when
\* it raises
RunnerPreflight(rt) ==
    IF ~rt.binary THEN NoBinary
    ELSE IF ~rt.socket THEN NoSocket
    ELSE IF ~rt.daemon THEN NoDaemon
    ELSE <<>>

\* the conditions runner_preflight() looks at, in the order it does
PreflightChecks(rt) ==
    IF ~rt.binary THEN <<"docker version">>
    ELSE IF ~rt.socket THEN <<"docker version", "exists /var/run/docker.sock">>
    ELSE <<"docker version", "exists /var/run/docker.sock", "docker info">>

(***************************************************************************)
(* Path Mapper                                                             *)
(***************************************************************************)
\* os.path.join(os.getcwd(), "runner_tmp")
LocalJobsRoot == << <<"app">>, <<"runner_tmp">> >>

\* the directory of the host that the Runner sees as LocalJobsRoot, in a
\* nested-container deployment
HostMount == << <<"mnt">>, <<"c">>, <<"runner_tmp">> >>

\* a directory MATRIXLAB_LOCAL_JOBS_DIR can name
LocalAlt == << <<"data">>, <<"jobs">> >>

\* os.environ.get("MATRIXLAB_LOCAL_JOBS_DIR", os.path.join(os.getcwd(), "runner_tmp"))
LocalJobsDir(env) ==
    IF env.MATRIXLAB_LOCAL_JOBS_DIR = None THEN LocalJobsRoot
    ELSE env.MATRIXLAB_LOCAL_JOBS_DIR[1]

\* HostJobsRoot of a Runner that mounts by its own paths
HostJobsRootLocal(env) == LocalJobsDir(env)

\* os.environ.get("MATRIXLAB_HOST_JOBS_DIR", local_jobs_root)
HostJobsRoot(env) ==
    IF env.MATRIXLAB_HOST_JOBS_DIR = None THEN LocalJobsDir(env)
    ELSE env.MATRIXLAB_HOST_JOBS_DIR[1]

\* the name mkdtemp(prefix=f"job-{job_id}-") tries: prefix and random part
JobDirName(job_id, rnd) == << <<"job-">> \o job_id \o <<"-", rnd>> >>

\* the local variables of run_job set by lines 82-112
JobPaths(env, job_id, rnd) ==
    LET local_job_dir == Join(LocalJobsDir(env), JobDirName(job_id, rnd))
        rel_path == RelPath(local_job_dir, LocalJobsDir(env))
        host_job_dir == Join(HostJobsRoot(env), rel_path)
    IN  [job_id |-> job_id,
         local_job_dir |-> local_job_dir,
         host_job_dir |-> host_job_dir,
         local_out_dir |-> Join(local_job_dir, << <<"out">> >>),
         local_ws_dir |-> Join(local_job_dir, << <<"ws">> >>),
         host_out_dir |-> Join(host_job_dir, << <<"out">> >>),
         host_ws_dir |-> Join(host_job_dir, << <<"ws">> >>)]

NoJob ==
    [job_id |-> <<>>, local_job_dir |-> <<>>, host_job_dir |-> <<>>,
     local_out_dir |-> <<>>, local_ws_dir |-> <<>>,
     host_out_dir |-> <<>>, host_ws_dir |-> <<>>]

\* the path under which the Runner sees a file that the daemon sees as p
DaemonToRunner(env, p) ==
    LET root == IF env.MATRIXLAB_HOST_JOBS_DIR = None THEN LocalJobsDir(env)
                ELSE HostMount
    IN  IF IsPrefix(root, p) THEN Join(LocalJobsDir(env), RelPath(p, root))
        ELSE Join(<< <<"host-only">> >>, p)

(***************************************************************************)
(* Files the Runner and the sandbox containers write                       *)
(***************************************************************************)
\* "runner_ok=1\n"
RunnerMarker == [tag |-> "runner_ok=1", name |-> <<>>, code |-> 0, owner |-> 0]

\* f"name={step.name}\nexit_code={out.exit_code}\n"
LastStepMarker(name, exit_code) ==
    [tag |-> "name= exit_code=", name |-> name, code |-> exit_code, owner |-> 0]

\* what a step of job j writes to a file of its own
UserData(j) == [tag |-> "user", name |-> <<>>, code |-> 0, owner |-> j]

\* a file of the Runner's own root filesystem
HostFile == << <<"etc">>, <<"hostname">> >>
HostData == [tag |-> "runner-host", name |-> <<>>, code |-> 0, owner |-> 0]

\* a path at which the Runner has no file
Missing == << <<"nonexistent">> >>

RunnerTxt == << <<"_runner.txt">> >>
LastStepTxt == << <<"_last_step.txt">> >>
ResultDir == << <<"d">> >>
ResultTxt == << <<"d">>, <<"result.txt">> >>
LinkName == << <<"link">> >>

\* open(path, "w").write(data) under try/except Exception: pass
TryWrite(f, path, data, w_ok) ==
    IF w_ok /\ ~IsDir(f, path) THEN Put(f, path, FileEntry(data)) ELSE f

(***************************************************************************)
(* Step Runner: the container invocation                                   *)
(***************************************************************************)
\* f"mlab-{job_id[:8]}-{step.name[:10]}-{uuid.uuid4().hex[:4]}"
ContainerName(job_id, step_name, hex) ==
    <<"mlab-">> \o First8(job_id) \o <<"-">> \o Take(step_name, 10) \o <<"-", hex>>

\* NetworkFlag of a Runner that gives every step the bridge network
NetworkFlagBridge(step) == "bridge"

\* network_flag
NetworkFlag(step) == IF step.network = "none" THEN "none" ELSE "bridge"

\* LimitArgs of a Runner that launches with the defaults of RunRequest
LimitArgsDefault(r) ==
    [pids_limit |-> Str(DefaultLimits.pids_limit),
     cpus |-> Str(DefaultLimits.cpu_limit),
     memory |-> Str(DefaultLimits.mem_limit_mb) \o <<"m">>]

\* str(req.pids_limit), str(req.cpu_limit), f"{req.mem_limit_mb}m"
LimitArgs(r) ==
    [pids_limit |-> Str(r.pids_limit),
     cpus |-> Str(r.cpu_limit),
     memory |-> Str(r.mem_limit_mb) \o <<"m">>]

\* str.strip() of a string whose only whitespace is the blank
RECURSIVE LStrip(_)
LStrip(s) == IF s # <<>> /\ Head(s) = " " THEN LStrip(Tail(s)) ELSE s

RECURSIVE RStrip(_)
RStrip(s) == IF s # <<>> /\ Last(s) = " " THEN RStrip(Take(s, Len(s) - 1)) ELSE s

Strip(s) == RStrip(LStrip(s))

\* os.environ.get("MATRIXLAB_DOCKER_PULL", "missing").strip()
PullPolicy(env) ==
    Strip(IF env.MATRIXLAB_DOCKER_PULL = None THEN <<"missing">>
          ELSE env.MATRIXLAB_DOCKER_PULL[1])

\* PullArgs of a Runner that passes its default whatever the variable says
PullArgsDefault(env) == Some(<<"missing">>)

\* pull_args: the policy after --pull, None when no --pull is passed
PullArgs(env) ==
    IF PullPolicy(env) \in {<<"always">>, <<"missing">>, <<"never">>}
    THEN Some(PullPolicy(env))
    ELSE None

\* the characters of these strings that shlex.quote finds unsafe
UnsafeToks == {" ", "'", "\"", "$", ";"}

\* s.replace("'", "'\"'\"'")
RECURSIVE ReplaceQuotes(_)
ReplaceQuotes(s) ==
    IF s = <<>> THEN <<>>
    ELSE (IF Head(s) = "'" THEN <<"'", "\"", "'", "\"", "'">> ELSE <<Head(s)>>)
         \o ReplaceQuotes(Tail(s))

\* Quote of a Runner that interpolates the string as it is
QuoteNothing(s) == s

\* shlex.quote
Quote(s) ==
    IF s = <<>> THEN <<"'", "'">>
    ELSE IF \A i \in DOMAIN s : s[i] \notin UnsafeToks THEN s
    ELSE <<"'">> \o ReplaceQuotes(s) \o <<"'">>

\* env_exports: " ".join of f"{shlex.quote(k)}={shlex.quote(v)}"
RECURSIVE EnvExports(_)
EnvExports(env) ==
    IF env = <<>> THEN <<>>
    ELSE Quote(env[1].key) \o <<"=">> \o Quote(env[1].value)
         \o (IF Len(env) = 1 THEN <<>> ELSE <<" ">> \o EnvExports(Tail(env)))

\* the first line the step script prints
Banner(step) == <<"== Matrix Lab step: ">> \o step.name \o <<" ==">>

\* step_script, split at its newlines
StepScript(step) ==
    << <<>>,
       <<"set -euo pipefail">>,
       <<"mkdir -p /output">>,
       <<"export HOME=/workspace">>,
       <<"export OUTPUT_DIR=/output">>,
       IF EnvExports(step.env) # <<>>
       THEN <<"export", " ">> \o EnvExports(step.env)
       ELSE <<>>,
       <<>>,
       <<"echo \"">> \o Banner(step) \o <<"\"">>,
       step.command,
       <<>> >>

\* Mounts of a Runner that gives every step directories of its own
MountsPerStep(jp, step) ==
    [workspace |-> Join(jp.host_ws_dir, <<step.name>>),
     output |-> Join(jp.host_out_dir, <<step.name>>)]

\* f"{host_ws_dir}:/workspace:rw" and f"{host_out_dir}:/output:rw"
Mounts(jp, step) ==
    [workspace |-> jp.host_ws_dir, output |-> jp.host_out_dir]

\* docker_cmd: the options of docker run and their values, the two -v by
\* the directory they mount the host path on and by their mode
DockerCmd(env, r, jp, step, name) ==
    [rm |-> TRUE,
     name |-> name,
     init |-> TRUE,
     read_only |-> TRUE,
     pids_limit |-> LimitArgs(r).pids_limit,
     cpus |-> LimitArgs(r).cpus,
     memory |-> LimitArgs(r).memory,
     security_opt |-> "no-new-privileges",
     cap_drop |-> "ALL",
     ipc |-> "none",
     workdir |-> "/workspace",
     workspace |-> Mounts(jp, step).workspace,
     workspace_mode |-> "rw",
     output |-> Mounts(jp, step).output,
     output_mode |-> "rw",
     tmpfs |-> "/tmp:rw,noexec,nosuid,size=256m",
     network |-> NetworkFlag(step),
     pull |-> PullArgs(env),
     image |-> r.sandbox_image]

\* SpawnFailure with the exit code of a failed command
SpawnFailureExit1(step, e) ==
    StepResult(step.name, 1, <<>>, <<"Runner error: ", e>>)

\* the StepResult of the handlers of FileNotFoundError and Exception
SpawnFailure(step, e) ==
    StepResult(step.name, 999, <<>>,
               IF e = "FileNotFoundError"
               THEN <<"Runner error: docker CLI not found.", e>>
               ELSE <<"Runner error: ", e>>)

\* AfterStep without the break of line 208
AfterStepNoBreak(exit_code, i, n) == IF i < n THEN "loop" ELSE "pack"

\* where run_job goes after a step returned: break, next step, or the end
\* of the for loop
AfterStep(exit_code, i, n) ==
    IF exit_code # 0 THEN "pack"
    ELSE IF i < n THEN "loop"
    ELSE "pack"

\* _run_local without the wait for docker run to end
AfterSpawnNoWait == "loop"

\* where run_job is once Popen started docker run: in subprocess.run, until
\* the command ends or the timeout expires
AfterSpawn == "wait"

\* the handlers of lines 222-241 with continue for break
AfterSpawnFailureRetry == "loop"

\* where run_job goes when Popen raised: break
AfterSpawnFailure == "pack"

ExitCodes == {0, 2}

\* the exit code of docker run when the name is already in use
NameConflict == 125

(***************************************************************************)
(* Capability Probe: sandbox_selftest                                      *)
(***************************************************************************)
\* images, in the order of the dict
SandboxImages ==
    <<[name |-> "utils", image |-> <<"matrix-lab-sandbox-utils:latest">>],
      [name |-> "python", image |-> <<"matrix-lab-sandbox-python:latest">>],
      [name |-> "node", image |-> <<"matrix-lab-sandbox-node:latest">>],
      [name |-> "go", image |-> <<"matrix-lab-sandbox-go:latest">>],
      [name |-> "rust", image |-> <<"matrix-lab-sandbox-rust:latest">>]>>

\* what _run_local(cmd, timeout) does: subprocess.run returns an exit
\* code, or raises TimeoutExpired or, when docker cannot be spawned,
\* FileNotFoundError
CmdOutcomes ==
    {[exc |-> "", code |-> 0], [exc |-> "", code |-> 1],
     [exc |-> "TimeoutExpired", code |-> 0],
     [exc |-> "FileNotFoundError", code |-> 0]}

\* docker_info().get("ok"): an exception of docker version is caught
DockerOk(out) == out.exc = "" /\ out.code = 0

\* _image_exists, when docker image inspect returned
ImageExists(out) == out.code = 0

\* the entry of an image that is not there
MissingEntry(img) ==
    [name |-> img.name, ok |-> FALSE,
     error |-> <<"image not found locally: ">> \o img.image,
     exit_code |-> None, image |-> None]

\* the entry of an image whose sanity command returned
RunEntry(img, exit_code) ==
    [name |-> img.name, ok |-> exit_code = 0, error |-> <<>>,
     exit_code |-> Some(exit_code), image |-> Some(img.image)]

\* ProbeStatus of a probe that reports the last image
ProbeStatusLast(status, exit_code) ==
    IF exit_code # 0 THEN "degraded" ELSE "ok"

\* if p.exit_code != 0: results["status"] = "degraded"
ProbeStatus(status, exit_code) ==
    IF exit_code # 0 THEN "degraded" ELSE status

\* no GET /sandboxes/health yet
NoProbe ==
    [pc |-> "idle", i |-> 1, status |-> "", error |-> <<>>, sandboxes |-> <<>>,
     log |-> <<>>, raised |-> None, http |-> 0]

(***************************************************************************)
(* Bootstrap: tools/bootstrap.py                                           *)
(***************************************************************************)
\* wait_for_runner(runner_url, retries=90, sleep_s=1.0)
Retries == 90

\* values of MATRIXLAB_AUTOSTART
AutostartValues ==
    {None, Some(<<"1">>), Some(<<"0">>), Some(<<" ", "TRUE", " ">>), Some(<<"off">>)}

\* str.lower() of the strings MATRIXLAB_AUTOSTART has here
Lower(s) ==
    [i \in DOMAIN s |-> CASE s[i] = "TRUE" -> "true" [] OTHER -> s[i]]

\* env_flag(name, default), v the value of the variable
EnvFlag(v, default) ==
    Lower(Strip(IF v = None THEN default ELSE v[1]))
        \in {<<"1">>, <<"true">>, <<"yes">>, <<"on">>}

\* what http_ok does: True, False, or an exception it does not catch
HealthChecks == {"ok", "down", "raises"}

\* AfterLastPoll of a wait_for_runner that returns when its loop ends
AfterLastPollExec == "exec"

\* wait_for_runner after the loop: raise RuntimeError
AfterLastPoll == "exit"

\* bootstrap before main()
NotBooted ==
    [pc |-> "main", autostart |-> FALSE, checks |-> <<>>, ups |-> 0,
     execd |-> FALSE, rc |-> None]

(***************************************************************************)
(* State                                                                   *)
(***************************************************************************)
VARIABLES
    environ,         \* os.environ of the Runner process
    fs,              \* the filesystem, by the Runner's paths
    containers,      \* the sandbox containers the runtime is running
    pc,              \* where each /run request is in run_job
    req,             \* the RunRequest of each /run
    job,             \* job_id and the directories of each job
    step_i,          \* the index of the step the for loop is at
    container_name,  \* container_name of the current step
    exc,             \* the TimeoutExpired being handled
    results,         \* results of run_job
    launches,        \* the docker run commands each job handed to _run_local,
                     \* and what Popen did with each
    kills,           \* the docker kill commands each job ran
    http,            \* the answer of POST /run
    ops,             \* operations the sandbox containers have performed
    faults,          \* system calls of the Runner that have failed
    runtime,         \* the container runtime as the Runner finds it
    checks,          \* what the preflight of each /run looked at
    raised,          \* the exception run_job raised for each /run
    health,          \* the answer to the last GET /health
    inbox,           \* the requests clients send
    probe,           \* the call of sandbox_selftest behind GET /sandboxes/health
    boot             \* the run of the bootstrap tool

vars == <<environ, fs, containers, pc, req, job, step_i, container_name, exc,
          results, launches, kills, http, ops, faults, runtime, checks, raised,
          health, inbox, probe, boot>>

\* the outcomes a system call of the Runner can have: it succeeds (TRUE),
\* or it fails
Oks == IF faults < MaxFaults THEN BOOLEAN ELSE {TRUE}

Fault(failed) == faults' = IF failed THEN faults + 1 ELSE faults

NoResponse ==
    [status |-> 0, detail |-> <<>>, job_id |-> <<>>, results |-> <<>>,
     artifacts_zip_base64 |-> None]

\* Http500 of a run() that answers an error with an empty RunResponse
Http500AsEmpty200(e) ==
    [status |-> 200, detail |-> e, job_id |-> <<>>, results |-> <<>>,
     artifacts_zip_base64 |-> None]

\* raise HTTPException(status_code=500, detail=str(e))
Http500(e) ==
    [status |-> 500, detail |-> e, job_id |-> <<>>, results |-> <<>>,
     artifacts_zip_base64 |-> None]

\* the answer of the framework to a body that RunRequest does not validate;
\* main.py installs no handler of its own for it
Http422 ==
    [status |-> 422, detail |-> <<"Field required">>, job_id |-> <<>>,
     results |-> <<>>, artifacts_zip_base64 |-> None]

\* Http200 of a run_job that packs the archive only when no step failed
Http200PackOnSuccess(job_id, res, artifacts_b64) ==
    [status |-> 200, detail |-> <<>>, job_id |-> job_id, results |-> res,
     artifacts_zip_base64 |->
        IF \E i \in 1..Len(res) : res[i].exit_code # 0 THEN None
        ELSE artifacts_b64]

\* the dict run_job returns, as the RunResponse of a 200
Http200(job_id, res, artifacts_b64) ==
    [status |-> 200, detail |-> <<>>, job_id |-> job_id, results |-> res,
     artifacts_zip_base64 |-> artifacts_b64]

NoExc == [stdout |-> PyNone, stderr |-> PyNone]

NoHealth == [status |-> ""]

Healthy == [binary |-> TRUE, socket |-> TRUE, daemon |-> TRUE]

Fs0 == Put(MakeDirs(<<>>, Dirname(HostFile)), HostFile, FileEntry(HostData))

\* os.environ of a bare-host and of a nested-container deployment
Environs ==
    {[MATRIXLAB_LOCAL_JOBS_DIR |-> None, MATRIXLAB_HOST_JOBS_DIR |-> h,
      MATRIXLAB_DOCKER_PULL |-> None] :
        h \in {None, Some(HostMount)}}

\* the state of the Runner process and of its host before any request
Started ==
    /\ fs = Fs0
    /\ containers = {}
    /\ pc = [j \in Jobs |-> "idle"]
    /\ req = [j \in Jobs |-> RunRequest(<<>>, DefaultLimits)]
    /\ job = [j \in Jobs |-> NoJob]
    /\ step_i = [j \in Jobs |-> 1]
    /\ container_name = [j \in Jobs |-> <<>>]
    /\ exc = [j \in Jobs |-> NoExc]
    /\ results = [j \in Jobs |-> <<>>]
    /\ launches = [j \in Jobs |-> <<>>]
    /\ kills = [j \in Jobs |-> <<>>]
    /\ http = [j \in Jobs |-> NoResponse]
    /\ checks = [j \in Jobs |-> <<>>]
    /\ raised = [j \in Jobs |-> None]
    /\ health = NoHealth
    /\ probe = NoProbe
    /\ boot = NotBooted

Init ==
    /\ Started
    /\ environ \in Environs
    /\ runtime = Healthy
    /\ inbox = RunRequests
    /\ ops = 0
    /\ faults = 0

(***************************************************************************)
(* POST /run: run_job, with the try/except of run() around it               *)
(***************************************************************************)
Raise(j, e) ==
    /\ raised' = [raised EXCEPT ![j] = Some(e)]
    /\ http' = [http EXCEPT ![j] = Http500(e)]
    /\ pc' = [pc EXCEPT ![j] = "done"]

\* the states the runtime can be found in: as it was, or broken since
RuntimeOutcomes == IF faults < MaxFaults THEN RuntimeStates ELSE {runtime}

\* FsAfterPreflightError of a run_job that makes the job directories and
\* then calls the preflight
FsAfterLatePreflightError(f, made) == made

\* line 80: runner_preflight() is the first statement of run_job; when it
\* raises, the filesystem is f, as it was, and not made, what lines 82-124
\* would make of it
FsAfterPreflightError(f, made) == f

\* lines 80-130: preflight, job_id, the job directories, the marker.
\* uuid4 returns a uuid that was not returned before; mkdtemp skips the
\* names that exist.  mk_ok: creating the directories succeeds; w_ok:
\* writing the marker succeeds.
RunJobStart(j) ==
    /\ pc[j] = "idle"
    /\ \E r \in inbox, rt \in RuntimeOutcomes,
          u \in Uuid4({job[k].job_id : k \in Jobs} \ {<<>>}),
          mk_ok \in Oks, w_ok \in Oks :
        LET err == RunnerPreflight(rt)
            taken == {TmpTok[i] : i \in {k \in DOMAIN TmpTok :
                          Exists(fs, Join(LocalJobsDir(environ), JobDirName(u, TmpTok[k])))}}
            jp == JobPaths(environ, u, MkTemp(taken))
            f1 == MakeDirs(fs, LocalJobsDir(environ))
            f2 == Put(f1, jp.local_job_dir, DirEntry)
            f3 == MakeDirs(MakeDirs(f2, jp.local_out_dir), jp.local_ws_dir)
            f4 == TryWrite(f3, Join(jp.local_out_dir, RunnerTxt), RunnerMarker, w_ok)
        IN  /\ req' = [req EXCEPT ![j] = r]
            /\ runtime' = rt
            /\ checks' = [checks EXCEPT ![j] = PreflightChecks(rt)]
            /\ IF err # <<>>
               THEN /\ Raise(j, err)
                    /\ Fault(rt # runtime)
                    /\ fs' = FsAfterPreflightError(fs, f4)
                    /\ UNCHANGED job
               ELSE IF ~mk_ok
               THEN /\ Raise(j, <<"OSError", "mkdtemp">>)
                    /\ Fault(TRUE)
                    /\ UNCHANGED <<fs, job>>
               ELSE /\ job' = [job EXCEPT ![j] = jp]
                    /\ fs' = f4
                    /\ Fault(~w_ok)
                    /\ pc' = [pc EXCEPT ![j] = IF r.steps = <<>> THEN "pack" ELSE "loop"]
                    /\ UNCHANGED <<http, raised>>
    /\ UNCHANGED <<environ, containers, step_i, container_name, exc, results,
                   launches, kills, ops, health, inbox, probe, boot>>

\* the container docker run creates for a command
NewContainer(j, i, cmd) ==
    [name |-> cmd.name, job |-> j, step |-> i,
     workspace |-> cmd.workspace, output |-> cmd.output, errout |-> FALSE]

\* the container of the current step of job j, if the runtime created it
Own(j) ==
    {c \in containers :
        c.job = j /\ c.step = step_i[j] /\ c.name = container_name[j]}

\* what Popen of a docker command does: the process starts, or the
\* exception it raises
SpawnOutcomes ==
    IF faults < MaxFaults THEN {"started", "FileNotFoundError", "OSError"}
    ELSE {"started"}

\* the values uuid4().hex[:4] has given so far
HexDrawn ==
    UNION {{Last(launches[k][i].cmd.name) : i \in DOMAIN launches[k]} : k \in Jobs}

\* lines 133-190 and 222-241: the command is composed and _run_local
\* spawns docker run, or fails to.  The runtime refuses a name in use.
LaunchStep(j) ==
    /\ pc[j] = "loop"
    /\ \E hex \in Hex4(HexDrawn), spawn \in SpawnOutcomes :
        LET step == req[j].steps[step_i[j]]
            name == ContainerName(job[j].job_id, step.name, hex)
            cmd == DockerCmd(environ, req[j], job[j], step, name)
        IN  /\ container_name' = [container_name EXCEPT ![j] = name]
            /\ launches' = [launches EXCEPT ![j] =
                   Append(@, [step |-> step_i[j], cmd |-> cmd,
                              script |-> StepScript(step), popen |-> spawn])]
            /\ IF spawn = "started"
               THEN /\ containers' =
                        IF \E c \in containers : c.name = name THEN containers
                        ELSE containers \cup {NewContainer(j, step_i[j], cmd)}
                    /\ pc' = [pc EXCEPT ![j] = AfterSpawn]
                    /\ UNCHANGED results
               ELSE /\ results' = [results EXCEPT ![j] = Append(@, SpawnFailure(step, spawn))]
                    /\ pc' = [pc EXCEPT ![j] = AfterSpawnFailure]
                    /\ UNCHANGED containers
            /\ Fault(spawn # "started")
    /\ UNCHANGED <<environ, fs, req, job, step_i, exc, kills, http, ops, runtime,
                   checks, raised, health, inbox, probe, boot>>

\* lines 190-208: docker run returns; the result, the debug marker, break
\* or the next iteration
StepReturn(j) ==
    /\ pc[j] = "wait"
    /\ \E code \in IF Own(j) = {} THEN {NameConflict} ELSE ExitCodes,
          w_ok \in Oks :
        LET step == req[j].steps[step_i[j]]
            stdout == IF Own(j) = {} THEN <<>> ELSE Banner(step)
            stderr == IF Own(j) = {} THEN <<"Conflict">>
                      ELSE IF \E c \in Own(j) : c.errout THEN <<"err">>
                      ELSE <<>>
        IN  /\ results' = [results EXCEPT ![j] =
                              Append(@, StepResult(step.name, code, stdout, stderr))]
            /\ fs' = TryWrite(fs, Join(job[j].local_out_dir, LastStepTxt),
                              LastStepMarker(step.name, code), w_ok)
            /\ pc' = [pc EXCEPT ![j] = AfterStep(code, step_i[j], Len(req[j].steps))]
            /\ step_i' = [step_i EXCEPT ![j] =
                             IF AfterStep(code, @, Len(req[j].steps)) = "loop"
                             THEN @ + 1 ELSE @]
            /\ Fault(~w_ok)
    /\ containers' = containers \ Own(j)
    /\ UNCHANGED <<environ, req, job, container_name, exc, launches, kills, http,
                   ops, runtime, checks, raised, health, inbox, probe, boot>>

\* docker kill of the name without its random suffix
DockerKillNoSuffix(name) == [op |-> "kill", name |-> SubSeq(name, 1, Len(name) - 1)]

\* ["docker", "kill", container_name]
DockerKill(name) == [op |-> "kill", name |-> name]

\* lines 24, 210 and 211: the wait for docker run expires, subprocess.run
\* kills the docker client and raises TimeoutExpired with what was
\* captured, as bytes, or None where nothing was captured; the handler runs
\* docker kill container_name.  The outcome of the kill is not looked at,
\* but failing to spawn it raises out of the handler.
StepTimeout(j) ==
    /\ pc[j] = "wait"
    /\ Own(j) # {}
    /\ exc' = [exc EXCEPT ![j] =
                 [stdout |-> PyBytes(Banner(req[j].steps[step_i[j]])),
                  stderr |-> IF \E c \in Own(j) : c.errout
                             THEN PyBytes(<<"err">>) ELSE PyNone]]
    /\ kills' = [kills EXCEPT ![j] = Append(@, DockerKill(container_name[j]))]
    /\ \E outcome \in {"killed"} \cup (SpawnOutcomes \ {"started", "FileNotFoundError"})
                                  \cup (IF faults < MaxFaults THEN {"failed"} ELSE {}) :
        /\ containers' =
              IF outcome = "killed"
              THEN {c \in containers : c.name # container_name[j]}
              ELSE containers
        /\ IF outcome = "OSError"
           THEN Raise(j, <<"OSError", "docker kill">>)
           ELSE pc' = [pc EXCEPT ![j] = "record"] /\ UNCHANGED <<http, raised>>
        /\ Fault(outcome # "killed")
    /\ UNCHANGED <<environ, fs, req, job, step_i, container_name, results,
                   launches, ops, runtime, checks, health, inbox, probe, boot>>

\* lines 212-220: the StepResult of a timeout, and break
RecordTimeout(j) ==
    /\ pc[j] = "record"
    /\ LET step == req[j].steps[step_i[j]]
           out == PyOr(exc[j].stdout, PyStr(<<>>))
           err == PyOr(exc[j].stderr, PyStr(<<>>))
           marker == PyStr(<<"\nTIMEOUT">>)
       IN  IF AddRaises(err, marker)
           THEN Raise(j, <<"TypeError", "can't concat str to bytes">>) /\ UNCHANGED results
           ELSE /\ results' = [results EXCEPT ![j] =
                      Append(@, StepResult(step.name, 124, out.val, PyAdd(err, marker).val))]
                /\ pc' = [pc EXCEPT ![j] = "pack"]
                /\ UNCHANGED <<http, raised>>
    /\ UNCHANGED <<environ, fs, containers, req, job, step_i, container_name,
                   exc, launches, kills, ops, faults, runtime, checks, health,
                   inbox, probe, boot>>

\* lines 244-254: the archive and the response
Pack(j) ==
    /\ pc[j] = "pack"
    /\ \E io_ok \in Oks :
        LET z == ZipDirToBase64(fs, job[j].local_out_dir, io_ok)
        IN  /\ fs' = z.fs
            /\ IF z.raised
               THEN Raise(j, z.error)
               ELSE /\ http' = [http EXCEPT ![j] =
                            Http200(job[j].job_id, results[j], Some(z.value))]
                    /\ pc' = [pc EXCEPT ![j] = "done"]
                    /\ UNCHANGED raised
            /\ Fault(~io_ok)
    /\ UNCHANGED <<environ, containers, req, job, step_i, container_name, exc,
                   results, launches, kills, ops, runtime, checks, health, inbox, probe, boot>>

\* POST /run with a body that lacks a required field: run() is not called
RunUnprocessable(j) ==
    /\ pc[j] = "idle"
    /\ \E b \in BadBodies : MissingFields(b) # {}
    /\ http' = [http EXCEPT ![j] = Http422]
    /\ pc' = [pc EXCEPT ![j] = "done"]
    /\ UNCHANGED <<environ, fs, containers, req, job, step_i, container_name,
                   exc, results, launches, kills, ops, faults, runtime, checks,
                   raised, health, inbox, probe, boot>>

(***************************************************************************)
(* GET /health (main.py)                                                   *)
(***************************************************************************)
\* a health() that reports what runner_preflight finds
HealthBodyPreflight ==
    IF RunnerPreflight(runtime) = <<>> THEN [status |-> "ok"]
    ELSE [status |-> "error"]

\* {"status": "ok"}
HealthBody == [status |-> "ok"]

Health ==
    /\ health' = HealthBody
    /\ UNCHANGED <<environ, fs, containers, pc, req, job, step_i, container_name,
                   exc, results, launches, kills, http, ops, faults, runtime,
                   checks, raised, inbox, probe, boot>>

(***************************************************************************)
(* The sandbox containers: what the script of a running step does          *)
(***************************************************************************)
\* the Runner's path of a file that the container sees below /output
Output(c, rel) == Join(DaemonToRunner(environ, c.output), rel)

Acts(c) ==
    /\ c \in containers
    /\ ops < MaxOps
    /\ ops' = ops + 1
    /\ UNCHANGED <<environ, pc, req, job, step_i, container_name, exc, results,
                   launches, kills, http, faults, runtime, checks, raised, health,
                   inbox, probe, boot>>

\* echo ... >&2
WriteStderr(c) ==
    /\ Acts(c)
    /\ ~c.errout
    /\ containers' = (containers \ {c}) \cup {[c EXCEPT !.errout = TRUE]}
    /\ UNCHANGED fs

\* mkdir -p /output/d; echo ... > /output/d/result.txt
WriteResult(c) ==
    /\ Acts(c)
    /\ fs' = Put(MakeDirs(fs, Output(c, ResultDir)), Output(c, ResultTxt),
                 FileEntry(UserData(c.job)))
    /\ UNCHANGED containers

\* rm /output/_runner.txt
RemoveMarker(c) ==
    /\ Acts(c)
    /\ fs' = Remove(fs, Output(c, RunnerTxt))
    /\ UNCHANGED containers

\* ln -s t /output/link
MakeLink(c, t) ==
    /\ Acts(c)
    /\ ~Exists(fs, Output(c, LinkName))
    /\ fs' = Put(MakeDirs(fs, Output(c, <<>>)), Output(c, LinkName), LinkEntry(t))
    /\ UNCHANGED containers

\* d/result.txt of the jobs other than c's, by the Runner's paths
OtherResults(c) ==
    {Join(job[k].local_out_dir, ResultTxt) :
        k \in {m \in Jobs : m # c.job /\ job[m] # NoJob}}

(***************************************************************************)
(* GET /sandboxes/health: sandbox_selftest, which the handler calls with   *)
(* no try/except                                                           *)
(***************************************************************************)
\* the variables of POST /run and GET /health
runnerVars ==
    <<environ, fs, containers, pc, req, job, step_i, container_name, exc,
      results, launches, kills, http, ops, faults, runtime, checks, raised,
      health, inbox>>

\* a command the probe ran, and what became of it
Logged(cmd, image, out) ==
    [cmd |-> cmd, image |-> image, exc |-> out.exc, code |-> out.code]

\* an exception leaves sandbox_selftest and the handler: FastAPI answers 500
ProbeRaise(p, e) == [p EXCEPT !.pc = "done", !.raised = Some(e), !.http = 500]

\* the next iteration of the for loop, or return results
AfterImage(p) ==
    IF p.i = Len(SandboxImages) THEN [p EXCEPT !.pc = "done", !.http = 200]
    ELSE [p EXCEPT !.pc = "inspect", !.i = @ + 1]

\* lines 289-294: results, docker_info, the early return
ProbeStart ==
    /\ probe.pc = "idle"
    /\ \E out \in CmdOutcomes :
        LET p == [probe EXCEPT !.log = Append(@, Logged("version", <<>>, out))]
        IN  probe' =
                IF DockerOk(out)
                THEN [p EXCEPT !.pc = "inspect", !.status = "ok"]
                ELSE [p EXCEPT !.pc = "done", !.http = 200, !.status = "error",
                               !.error = <<"docker not available to runner">>]
    /\ UNCHANGED <<runnerVars, boot>>

\* lines 296-300: _image_exists, the entry of a missing image, continue
ProbeInspect ==
    /\ probe.pc = "inspect"
    /\ \E out \in CmdOutcomes :
        LET img == SandboxImages[probe.i]
            p == [probe EXCEPT !.log = Append(@, Logged("inspect", img.image, out))]
        IN  probe' =
                IF out.exc # "" THEN ProbeRaise(p, out.exc)
                ELSE IF ImageExists(out) THEN [p EXCEPT !.pc = "run"]
                ELSE AfterImage([p EXCEPT !.sandboxes = Append(@, MissingEntry(img)),
                                          !.status = "degraded"])
    /\ UNCHANGED <<runnerVars, boot>>

\* lines 302-311: the sanity command, its entry, the status
ProbeRun ==
    /\ probe.pc = "run"
    /\ \E out \in CmdOutcomes :
        LET img == SandboxImages[probe.i]
            p == [probe EXCEPT !.log = Append(@, Logged("run", img.image, out))]
        IN  probe' =
                IF out.exc # "" THEN ProbeRaise(p, out.exc)
                ELSE AfterImage([p EXCEPT !.sandboxes = Append(@, RunEntry(img, out.code)),
                                          !.status = ProbeStatus(@, out.code)])
    /\ UNCHANGED <<runnerVars, boot>>

(***************************************************************************)
(* bootstrap: main(), under the handler of __main__ that turns an          *)
(* exception into exit code 1                                              *)
(***************************************************************************)
\* SystemExit(rc)
BootExit(b, rc) == [b EXCEPT !.pc = "exit", !.rc = Some(rc)]

\* lines 107-131: the flag, which_or_die("docker"), the first health check.
\* v: MATRIXLAB_AUTOSTART; docker: docker is on PATH; h: what http_ok does
BootMain ==
    /\ boot.pc = "main"
    /\ \E v \in AutostartValues, docker \in BOOLEAN, h \in HealthChecks :
        LET b == [boot EXCEPT !.autostart = EnvFlag(v, <<"1">>)]
            c == [b EXCEPT !.checks = <<h>>]
        IN  boot' =
                IF b.autostart /\ ~docker THEN BootExit(b, 1)
                ELSE IF h = "raises" THEN BootExit(c, 1)
                ELSE IF h = "ok" THEN [c EXCEPT !.pc = "exec"]
                ELSE IF ~b.autostart THEN BootExit(c, 2)
                ELSE [c EXCEPT !.pc = "up"]
    /\ UNCHANGED <<runnerVars, probe>>

\* lines 135-144: start_services.  No compose command is found, or
\* docker compose up -d --build runs and exits 0 or not
BootStartServices ==
    /\ boot.pc = "up"
    /\ \E out \in {"up", "failed", "no compose"} :
        boot' =
            IF out = "no compose" THEN BootExit(boot, 1)
            ELSE IF out = "failed" THEN BootExit([boot EXCEPT !.ups = @ + 1], 1)
            ELSE [boot EXCEPT !.ups = @ + 1, !.pc = "poll"]
    /\ UNCHANGED <<runnerVars, probe>>

\* lines 79-87 and 145: one iteration of wait_for_runner
BootPoll ==
    /\ boot.pc = "poll"
    /\ \E h \in HealthChecks :
        LET b == [boot EXCEPT !.checks = Append(@, h)]
        IN  boot' =
                IF h = "raises" THEN BootExit(b, 1)
                ELSE IF h = "ok" THEN [b EXCEPT !.pc = "exec"]
                ELSE IF Len(b.checks) - 1 < Retries THEN b
                ELSE IF AfterLastPoll = "exit" THEN BootExit(b, 1)
                ELSE [b EXCEPT !.pc = AfterLastPoll]
    /\ UNCHANGED <<runnerVars, probe>>

\* lines 90-103: exec_mcp.  matrixlab-mcp is on PATH and replaces the
\* process, or RuntimeError
BootExec ==
    /\ boot.pc = "exec"
    /\ \E found \in BOOLEAN :
        boot' = IF found THEN [boot EXCEPT !.pc = "mcp", !.execd = TRUE]
                ELSE BootExit(boot, 1)
    /\ UNCHANGED <<runnerVars, probe>>

(***************************************************************************)
(* Spec: one POST /run, on a host where up to MaxFaults system calls of    *)
(* the Runner fail, with steps that do anything to /output.                *)
(***************************************************************************)
Next ==
    \/ RunJobStart(1)
    \/ LaunchStep(1)
    \/ StepReturn(1)
    \/ StepTimeout(1)
    \/ RecordTimeout(1)
    \/ Pack(1)
    \/ \E c \in containers : WriteStderr(c)
    \/ \E c \in containers : WriteResult(c)
    \/ \E c \in containers : RemoveMarker(c)
    \/ \E c \in containers : \E t \in {HostFile, Missing} : MakeLink(c, t)

Spec == Init /\ [][Next]_vars

(***************************************************************************)
(* SpecJobs: NJobs concurrent POST /run, on a host where no system call of *)
(* the Runner fails, with steps that write results and make links to the   *)
(* results of other jobs.                                                  *)
(***************************************************************************)
InitJobs ==
    /\ Started
    /\ environ \in Environs
    /\ runtime = Healthy
    /\ inbox = RunRequests
    /\ ops = 0
    /\ faults = MaxFaults

NextJobs ==
    \/ \E j \in Jobs : RunJobStart(j)
    \/ \E j \in Jobs : LaunchStep(j)
    \/ \E j \in Jobs : StepReturn(j)
    \/ \E j \in Jobs : StepTimeout(j)
    \/ \E j \in Jobs : RecordTimeout(j)
    \/ \E j \in Jobs : Pack(j)
    \/ \E c \in containers : WriteResult(c)
    \/ \E c \in containers : \E t \in OtherResults(c) : MakeLink(c, t)

SpecJobs == InitJobs /\ [][NextJobs]_vars

(***************************************************************************)
(* SpecApi: one POST /run and the health probes, in any deployment and     *)
(* with the runtime in any state, for requests with any network modes and  *)
(* limits and for bodies that do not validate; no other system call fails  *)
(* and the steps leave /output alone.                                      *)
(***************************************************************************)
EnvironsApi ==
    {[MATRIXLAB_LOCAL_JOBS_DIR |-> l, MATRIXLAB_HOST_JOBS_DIR |-> h,
      MATRIXLAB_DOCKER_PULL |-> None] :
        l \in {None, Some(LocalAlt)}, h \in {None, Some(HostMount)}}

InitApi ==
    /\ Started
    /\ environ \in EnvironsApi
    /\ runtime \in RuntimeStates
    /\ inbox = ApiRequests
    /\ ops = 0
    /\ faults = MaxFaults

NextApi ==
    \/ RunJobStart(1)
    \/ RunUnprocessable(1)
    \/ LaunchStep(1)
    \/ StepReturn(1)
    \/ StepTimeout(1)
    \/ RecordTimeout(1)
    \/ Pack(1)
    \/ Health

SpecApi == InitApi /\ [][NextApi]_vars

(***************************************************************************)
(* SpecScript: one POST /run whose steps have env and commands of their    *)
(* own, under any value of MATRIXLAB_DOCKER_PULL; nothing fails.           *)
(***************************************************************************)
\* values of MATRIXLAB_DOCKER_PULL: unset, the three policies, a policy
\* with blanks around it, and a word that is no policy
PullValues ==
    {None, Some(<<"always">>), Some(<<"missing">>), Some(<<"never">>),
     Some(<<" ", "never", " ">>), Some(<<"sometimes">>)}

EnvironsPull ==
    {[MATRIXLAB_LOCAL_JOBS_DIR |-> None, MATRIXLAB_HOST_JOBS_DIR |-> None,
      MATRIXLAB_DOCKER_PULL |-> v] : v \in PullValues}

\* a command that writes to /output and fails
OtherCommand == <<"echo hi > /output/x; exit 2">>

\* env dicts: a plain value, values with a blank and with a quote, an
\* empty value and one the shell would expand
StepEnvs ==
    <<<<[key |-> <<"K">>, value |-> <<"v">>]>>,
      <<[key |-> <<"K">>, value |-> <<"v", " ", "w">>],
        [key |-> <<"L">>, value |-> <<"it", "'", "s">>]>>,
      <<[key |-> <<"K">>, value |-> <<>>],
        [key |-> <<"L">>, value |-> <<"$", "HOME", ";", "x">>]>>>>

ScriptSteps ==
    {PlainStep(<<"a">>, "none"),
     Step(<<"a">>, "none", OtherCommand, StepEnvs[1]),
     Step(<<"b">>, "egress", DefaultCommand, StepEnvs[2]),
     Step(<<"b">>, "none", OtherCommand, StepEnvs[3])}

ScriptRequests ==
    {RunRequest(ss, DefaultLimits) : ss \in SeqsUpTo(ScriptSteps, MaxSteps)}

InitScript ==
    /\ Started
    /\ environ \in EnvironsPull
    /\ runtime = Healthy
    /\ inbox = ScriptRequests
    /\ ops = 0
    /\ faults = MaxFaults

NextScript ==
    \/ RunJobStart(1)
    \/ LaunchStep(1)
    \/ StepReturn(1)
    \/ StepTimeout(1)
    \/ RecordTimeout(1)
    \/ Pack(1)

SpecScript == InitScript /\ [][NextScript]_vars

(***************************************************************************)
(* SpecProbe: one GET /sandboxes/health, any outcome of every command.     *)
(***************************************************************************)
NextProbe ==
    \/ ProbeStart
    \/ ProbeInspect
    \/ ProbeRun

SpecProbe == Init /\ [][NextProbe]_vars

(***************************************************************************)
(* SpecBoot: one run of the bootstrap tool.                                *)
(***************************************************************************)
NextBoot ==
    \/ BootMain
    \/ BootStartServices
    \/ BootPoll
    \/ BootExec

SpecBoot == Init /\ [][NextBoot]_vars

(***************************************************************************)
(* Properties                                                              *)
(***************************************************************************)
\* the job returned a RunResponse
Returned(j) == http[j].status = 200

\* the archive of a returned job, decoded: arcname -> content
Archive(j) == http[j].artifacts_zip_base64[1].zip

\* a list of results stops at its first non-zero exit code
StopsAtFailure(res) ==
    \A i \in 1..Len(res) : res[i].exit_code # 0 => Len(res) = i

\* C1 Fail-fast: in every job, at every moment and in the response, a
\* result with a non-zero exit code is the last of the results, and no more
\* commands have been launched than there are results and a step in
\* progress: nothing is launched or recorded after the first failure.
C1_FailFast ==
    \A j \in Jobs :
        /\ StopsAtFailure(results[j])
        /\ StopsAtFailure(http[j].results)
        /\ \A i \in 1..Len(results[j]) :
              results[j][i].exit_code # 0 => Len(launches[j]) = i

\* a job of two steps returned with the single result of a failed step
C1_Witness ==
    \E j \in Jobs :
        /\ Returned(j)
        /\ Len(req[j].steps) = 2
        /\ Len(http[j].results) = 1
        /\ http[j].results[1].exit_code = 2

\* a list of results names a prefix of the steps, in order
PrefixOfSteps(res, steps) ==
    /\ Len(res) <= Len(steps)
    /\ \A i \in 1..Len(res) : res[i].name = steps[i].name

\* C2 Ordering: at every moment of run_job and in the response, the results
\* are no longer than the steps and the i-th result carries the name of
\* the i-th step.
C2_Ordering ==
    \A j \in Jobs :
        /\ PrefixOfSteps(results[j], req[j].steps)
        /\ PrefixOfSteps(http[j].results, req[j].steps)

\* a job whose two steps have different names returned both results
C2_Witness ==
    \E j \in Jobs :
        /\ Returned(j)
        /\ Len(http[j].results) = 2
        /\ req[j].steps[1].name # req[j].steps[2].name

\* C3 Artifact presence: every job that returned a RunResponse carries an
\* archive, and the archive has the entry _runner.txt.
C3_ArtifactPresence ==
    \A j \in Jobs :
        Returned(j) =>
            /\ http[j].artifacts_zip_base64 # None
            /\ RunnerTxt \in DOMAIN Archive(j)

\* the wait for the current step of job j expired
TimedOut(j) == exc[j] # NoExc

EndsWithTimeout(stderr) == stderr # <<>> /\ Last(stderr) = "\nTIMEOUT"

\* C4 Timeout: once the handling of an expired wait is over, the step is
\* the last of the results, with exit code 124 and a stderr that ends with
\* the TIMEOUT marker, and nothing was launched after it.  Stated for the
\* runs in which no system call of the Runner fails.
C4_Timeout ==
    \A j \in Jobs :
        (faults = 0 /\ TimedOut(j) /\ pc[j] \in {"pack", "done"}) =>
            /\ Len(results[j]) = step_i[j]
            /\ Len(launches[j]) = step_i[j]
            /\ Last(results[j]).name = req[j].steps[step_i[j]].name
            /\ Last(results[j]).exit_code = 124
            /\ EndsWithTimeout(Last(results[j]).stderr)

\* C5 Kill-by-name: a job has run docker kill exactly if the wait for a
\* step of it expired, once, with the --name of the docker run of that
\* step; every result with exit code 124 is that of a step whose container
\* name was killed before, and so is every archive packed after it.
C5_KillByName ==
    \A j \in Jobs :
        /\ ~TimedOut(j) => kills[j] = <<>>
        /\ TimedOut(j) =>
              /\ Len(kills[j]) = 1
              /\ kills[j][1].op = "kill"
              /\ kills[j][1].name = launches[j][step_i[j]].cmd.name
        /\ \A i \in 1..Len(results[j]) :
              results[j][i].exit_code = 124 =>
                  /\ kills[j] # <<>>
                  /\ kills[j][1].name = launches[j][i].cmd.name
        /\ (Returned(j) /\ \E i \in 1..Len(http[j].results) :
                               http[j].results[i].exit_code = 124) =>
              kills[j] # <<>>

\* a job returned the result of a timed-out second step, after the kill
C5_Witness ==
    \E j \in Jobs :
        /\ Returned(j)
        /\ Len(http[j].results) = 2
        /\ http[j].results[2].exit_code = 124
        /\ kills[j] = <<[op |-> "kill", name |-> launches[j][2].cmd.name]>>

\* Popen of the docker run of the current step of job j raised
SpawnFailed(j) == launches[j] # <<>> /\ Last(launches[j]).popen # "started"

\* the step that could not be spawned is the last result, with exit code
\* 999, an empty stdout and the error in stderr, and the loop is left
SpawnFailureRecorded(j) ==
    /\ pc[j] \in {"pack", "done"}
    /\ Len(results[j]) = Len(launches[j])
    /\ Last(results[j]).name = req[j].steps[Len(launches[j])].name
    /\ Last(results[j]).exit_code = 999
    /\ Last(results[j]).stdout = <<>>
    /\ Last(Last(results[j]).stderr) = Last(launches[j]).popen

\* C6 as claimed: after a spawn failure the step is recorded with 999 and
\* run_job returns a RunResponse, in every case.
C6_SpawnFailureReturns ==
    \A j \in Jobs :
        SpawnFailed(j) =>
            /\ SpawnFailureRecorded(j)
            /\ pc[j] = "done" => (Returned(j) /\ http[j].results = results[j])

\* the errors the Artifact Packer raises
PackErrors == {<<"OSError", "mkstemp">>, <<"FileNotFoundError", "z.write">>}

\* C6 Spawn failure, amended: after a spawn failure the step is recorded
\* with exit code 999, an empty stdout and the error in stderr, the job
\* stops, and run_job returns a RunResponse with these results unless the
\* Artifact Packer raises, in which case /run answers 500 with the
\* packer's error.
C6_SpawnFailure ==
    \A j \in Jobs :
        SpawnFailed(j) =>
            /\ SpawnFailureRecorded(j)
            /\ pc[j] = "done" =>
                  \/ Returned(j) /\ http[j].results = results[j]
                  \/ http[j].status = 500 /\ http[j].detail \in PackErrors

\* a job returned after its second step could not be spawned
C6_Witness ==
    \E j \in Jobs :
        /\ SpawnFailed(j)
        /\ Returned(j)
        /\ Len(http[j].results) = 2
        /\ http[j].results[2].exit_code = 999

\* C7 Last-step marker: in the archive of every returned job that ran a
\* step, _last_step.txt holds the name and the exit code of the last
\* result.  Stated for the runs in which no system call of the Runner
\* fails.
C7_LastStepMarker ==
    \A j \in Jobs :
        (faults = 0 /\ Returned(j) /\ http[j].results # <<>>) =>
            /\ LastStepTxt \in DOMAIN Archive(j)
            /\ Archive(j)[LastStepTxt] =
                  LastStepMarker(Last(http[j].results).name,
                                 Last(http[j].results).exit_code)

\* the for loop of job j is over: every launched command has its result,
\* and either every step has one or the last one failed
LoopOver(j) ==
    /\ Len(launches[j]) = Len(results[j])
    /\ \/ Len(results[j]) = Len(req[j].steps)
       \/ results[j] # <<>> /\ Last(results[j]).exit_code # 0

\* C8 Archive after the loop: every RunResponse carries an archive, it is
\* returned only when the for loop is over, with the results of the loop,
\* whether the steps succeeded or one of them failed, timed out or could
\* not be spawned.
C8_ArchiveAfterLoop ==
    \A j \in Jobs :
        Returned(j) =>
            /\ http[j].artifacts_zip_base64 # None
            /\ LoopOver(j)
            /\ http[j].results = results[j]

\* a job returned an archive after its first step of two failed
C8_Witness ==
    \E j \in Jobs :
        /\ Returned(j)
        /\ Len(req[j].steps) = 2
        /\ Len(http[j].results) = 1
        /\ http[j].results[1].exit_code # 0
        /\ http[j].artifacts_zip_base64 # None

\* the regular files below dir
RegularFiles(f, dir) ==
    {p \in DOMAIN f : IsPrefix(dir, p) /\ p # dir /\ f[p].kind = "file"}

\* C9 Artifact Packer content: when a job packs and returns, the entries of
\* the archive are exactly the regular files below out/ at that moment,
\* each under its path relative to out/ and with its content.
C9_PackerContent ==
    [][\A j \in Jobs :
          (pc[j] = "pack" /\ Returned(j)') =>
              LET out == job[j].local_out_dir
                  zip == http'[j].artifacts_zip_base64[1].zip
              IN  /\ DOMAIN zip =
                        {SubSeq(p, Len(out) + 1, Len(p)) : p \in RegularFiles(fs, out)}
                  /\ \A rel \in DOMAIN zip : zip[rel] = fs[Join(out, rel)].data]_vars

\* the directories of two jobs are different and not inside each other,
\* and so are the mounts of their containers
JobDirsDisjoint ==
    \A j, k \in Jobs :
        (j # k /\ job[j] # NoJob /\ job[k] # NoJob) =>
            /\ job[j].job_id # job[k].job_id
            /\ ~IsPrefix(job[j].local_job_dir, job[k].local_job_dir)
            /\ ~IsPrefix(job[j].host_job_dir, job[k].host_job_dir)
            /\ \A i \in 1..Len(launches[j]) :
                  /\ ~IsPrefix(job[k].host_job_dir, launches[j][i].cmd.workspace)
                  /\ ~IsPrefix(job[k].host_job_dir, launches[j][i].cmd.output)

\* C10 Isolation across jobs: two jobs have different job_ids and disjoint
\* directories, no container of one mounts a directory of the other, and
\* the archive of one holds no file written by the other.
C10_Isolation ==
    /\ JobDirsDisjoint
    /\ \A j, k \in Jobs :
          (j # k /\ Returned(j)) =>
              \A rel \in DOMAIN Archive(j) : Archive(j)[rel].owner # k

\* C11 Sequential steps: in every job at most one launched command is
\* without its result and at most one container of the job exists; the
\* launches are those of steps 1, 2, ... in order, and a step is launched
\* only when the result of the step before it is there with exit code 0.
C11_Sequential ==
    \A j \in Jobs :
        /\ Len(launches[j]) <= Len(results[j]) + 1
        /\ Cardinality({c \in containers : c.job = j}) <= 1
        /\ \A i \in 1..Len(launches[j]) :
              /\ launches[j][i].step = i
              /\ i > 1 => /\ Len(results[j]) >= i - 1
                          /\ results[j][i - 1].exit_code = 0

\* the second step of a job is in progress, after the first returned 0
C11_Witness ==
    \E j \in Jobs :
        /\ pc[j] = "wait"
        /\ Len(launches[j]) = 2
        /\ Len(results[j]) = 1
        /\ results[j][1].exit_code = 0

\* C12 Network policy: every docker run of a step with network "none" has
\* --network none and every docker run of a step with network "egress" has
\* --network bridge, whatever the steps before it asked for.
C12_NetworkPolicy ==
    \A j \in Jobs :
        \A i \in 1..Len(launches[j]) :
            LET step == req[j].steps[launches[j][i].step]
                flag == launches[j][i].cmd.network
            IN  /\ step.network = "none" => flag = "none"
                /\ step.network = "egress" => flag = "bridge"

\* a job launched an egress step and then a step without network
C12_Witness ==
    \E j \in Jobs :
        /\ Len(launches[j]) = 2
        /\ req[j].steps[1].network = "egress"
        /\ req[j].steps[2].network = "none"
        /\ launches[j][1].cmd.network = "bridge"
        /\ launches[j][2].cmd.network = "none"

\* the value of HOST_JOBS_DIR: that of the variable, or LOCAL_JOBS_DIR
HostJobsDirOrLocal ==
    IF environ.MATRIXLAB_HOST_JOBS_DIR = None THEN LocalJobsDir(environ)
    ELSE environ.MATRIXLAB_HOST_JOBS_DIR[1]

\* the paths of the filesystem that are not there before any request
Written == DOMAIN fs \ DOMAIN Fs0

\* C13 Path Mapper: the local and the host directory of a job are
\* LOCAL_JOBS_DIR and HOST_JOBS_DIR followed by the same one-component
\* subpath, HOST_JOBS_DIR being LOCAL_JOBS_DIR when the variable is not
\* set; everything the Runner made is LOCAL_JOBS_DIR, a directory on the
\* way to it or a path under it, the markers
\* and the packed archive are those of the local out directory, and the
\* two -v of every docker run are the host ws and out directories.
C13_PathMapper ==
    /\ \A p \in Written :
          \/ IsPrefix(LocalJobsDir(environ), p)
          \/ IsPrefix(p, LocalJobsDir(environ))
    /\ \A j \in Jobs :
          job[j] # NoJob =>
              LET rel == RelPath(job[j].local_job_dir, LocalJobsDir(environ))
                  host == Join(HostJobsDirOrLocal, rel)
                  local == Join(LocalJobsDir(environ), rel)
              IN  /\ Len(rel) = 1
                  /\ job[j].local_job_dir = local
                  /\ job[j].host_job_dir = host
                  /\ IsDir(fs, Join(local, << <<"out">> >>))
                  /\ IsDir(fs, Join(local, << <<"ws">> >>))
                  /\ Exists(fs, Join(Join(local, << <<"out">> >>), RunnerTxt))
                  /\ \A i \in 1..Len(launches[j]) :
                        /\ launches[j][i].cmd.workspace = Join(host, << <<"ws">> >>)
                        /\ launches[j][i].cmd.output = Join(host, << <<"out">> >>)
                  /\ Returned(j) =>
                        \A a \in DOMAIN Archive(j) :
                            Archive(j)[a] = fs[Join(Join(local, << <<"out">> >>), a)].data

\* a job returned in a deployment where both directories are set and
\* differ: its step was mounted by the host path, its files are local
C13_Witness ==
    \E j \in Jobs :
        /\ Returned(j)
        /\ environ.MATRIXLAB_LOCAL_JOBS_DIR = Some(LocalAlt)
        /\ environ.MATRIXLAB_HOST_JOBS_DIR = Some(HostMount)
        /\ launches[j] # <<>>
        /\ IsPrefix(HostMount, launches[j][1].cmd.output)
        /\ IsPrefix(LocalAlt, job[j].local_out_dir)
        /\ LastStepTxt \in DOMAIN Archive(j)

AllChecks == <<"docker version", "exists /var/run/docker.sock", "docker info">>

\* C14 Preflight: the conditions a preflight looked at are the first ones of
\* binary, socket, daemon, in this order; it stopped at the first that does
\* not hold and raised the message of that condition, the three messages
\* being different; it looked at all three and raised none of them exactly
\* when all three hold.
C14_Preflight ==
    /\ NoBinary # NoSocket /\ NoSocket # NoDaemon /\ NoBinary # NoDaemon
    /\ \A j \in Jobs :
          checks[j] # <<>> =>
              /\ checks[j] = SubSeq(AllChecks, 1, Len(checks[j]))
              /\ ~runtime.binary =>
                    Len(checks[j]) = 1 /\ raised[j] = Some(NoBinary)
              /\ (runtime.binary /\ ~runtime.socket) =>
                    Len(checks[j]) = 2 /\ raised[j] = Some(NoSocket)
              /\ (runtime.binary /\ runtime.socket /\ ~runtime.daemon) =>
                    Len(checks[j]) = 3 /\ raised[j] = Some(NoDaemon)
              /\ runtime = Healthy =>
                    /\ Len(checks[j]) = 3
                    /\ raised[j] \notin {Some(NoBinary), Some(NoSocket), Some(NoDaemon)}

\* a preflight stopped at the missing socket, with the daemon down as well
C14_Witness ==
    \E j \in Jobs :
        /\ runtime = [binary |-> TRUE, socket |-> FALSE, daemon |-> FALSE]
        /\ Len(checks[j]) = 2
        /\ raised[j] = Some(NoSocket)
        /\ http[j].status = 500

\* C15 GET /health: it can be answered in every state, its answer is always
\* {"status": "ok"}, and answering changes nothing else: no preflight, no
\* command of the runtime, no file, no job.
C15_Health ==
    /\ [](ENABLED Health)
    /\ [](health \in {NoHealth, [status |-> "ok"]})
    /\ [][health' # health =>
            /\ health' = [status |-> "ok"]
            /\ UNCHANGED <<environ, fs, containers, pc, req, job, step_i,
                           container_name, exc, results, launches, kills, http,
                           ops, faults, runtime, checks, raised, inbox, probe, boot>>]_vars

\* /health answered ok with the daemon down
C15_Witness ==
    /\ health = [status |-> "ok"]
    /\ ~runtime.daemon
    /\ \E j \in Jobs : http[j].status = 500

\* the errors run_job raises outside the steps: those of the preflight, of
\* the creation of the job directories and of the Artifact Packer
OutsideStepErrors ==
    {NoBinary, NoSocket, NoDaemon, <<"OSError", "mkdtemp">>} \cup PackErrors

\* C16 Errors outside a step: when run_job raised, /run answered 500 with
\* the message of the error and without job_id, results or archive, never
\* 200; a preflight that failed, directories that could not be created and
\* an archive that could not be built each make run_job raise, and a job
\* that is done without an error raised answered 200.
C16_RunErrors ==
    \A j \in Jobs :
        /\ raised[j] # None =>
              /\ pc[j] = "done"
              /\ http[j] = [status |-> 500, detail |-> raised[j][1],
                            job_id |-> <<>>, results |-> <<>>,
                            artifacts_zip_base64 |-> None]
        /\ (checks[j] # <<>> /\ runtime # Healthy) =>
              raised[j] = Some(RunnerPreflight(runtime))
        /\ (pc[j] = "done" /\ runtime = Healthy /\ job[j] = NoJob) =>
              raised[j] = Some(<<"OSError", "mkdtemp">>)
        /\ (pc[j] = "done" /\ raised[j] = None) => Returned(j)
        /\ (pc[j] = "done" /\ ~Returned(j) /\ LoopOver(j) /\ job[j] # NoJob) =>
              /\ raised[j] # None
              /\ raised[j][1] \in PackErrors

\* /run answered 500 because the archive of a job whose step had succeeded
\* could not be built
C16_Witness ==
    \E j \in Jobs :
        /\ raised[j] = Some(<<"FileNotFoundError", "z.write">>)
        /\ http[j].status = 500
        /\ http[j].detail = <<"FileNotFoundError", "z.write">>
        /\ results[j] # <<>>
        /\ Last(results[j]).exit_code = 0

\* /run was answered without run() being called: the body did not validate
Rejected(j) == http[j].detail = <<"Field required">>

\* C17 Validation: a /run whose body lacks a required field is answered
\* with 400, and no job directory is created and nothing is launched for
\* it.
C17_Validation ==
    \A j \in Jobs :
        Rejected(j) =>
            /\ http[j].status = 400
            /\ job[j] = NoJob
            /\ launches[j] = <<>>
            /\ Written = {}

\* C18 No retry: in every job each step is launched at most once, and no
\* more commands are launched than the request has steps, whether the
\* command exited non-zero, timed out or could not be spawned.
C18_NoRetry ==
    \A j \in Jobs :
        /\ Len(launches[j]) <= Len(req[j].steps)
        /\ \A i, k \in 1..Len(launches[j]) :
              i # k => launches[j][i].step # launches[j][k].step

\* a job of two steps returned after its first step could not be spawned:
\* one launch
C18_Witness ==
    \E j \in Jobs :
        /\ Returned(j)
        /\ Len(req[j].steps) = 2
        /\ Len(launches[j]) = 1
        /\ launches[j][1].popen # "started"
        /\ http[j].results[1].exit_code = 999

\* C19 Mandatory policies: every docker run of every step has --rm, --init,
\* --read-only, --cap-drop ALL, --security-opt no-new-privileges, --ipc
\* none, --workdir /workspace, the /tmp tmpfs with noexec and size=256m, and
\* --pids-limit, --cpus and --memory of the request's pids_limit, cpu_limit
\* and mem_limit_mb (in megabytes).
C19_MandatoryPolicies ==
    \A j \in Jobs :
        \A i \in 1..Len(launches[j]) :
            LET cmd == launches[j][i].cmd
            IN  /\ cmd.rm
                /\ cmd.init
                /\ cmd.read_only
                /\ cmd.cap_drop = "ALL"
                /\ cmd.security_opt = "no-new-privileges"
                /\ cmd.ipc = "none"
                /\ cmd.workdir = "/workspace"
                /\ cmd.tmpfs = "/tmp:rw,noexec,nosuid,size=256m"
                /\ cmd.pids_limit = <<req[j].pids_limit>>
                /\ cmd.cpus = <<req[j].cpu_limit>>
                /\ cmd.memory = <<req[j].mem_limit_mb, "m">>

\* a job with limits of its own launched its second step with them
C19_Witness ==
    \E j \in Jobs :
        /\ Len(launches[j]) = 2
        /\ req[j].pids_limit = 64
        /\ launches[j][2].cmd.pids_limit = <<64>>
        /\ launches[j][2].cmd.memory = <<512, "m">>
        /\ launches[j][2].cmd.read_only

\* C20 Unique container names: two launches, of the same job or of two
\* jobs, never have the same --name.
C20_UniqueNames ==
    \A j, k \in Jobs :
        \A i \in 1..Len(launches[j]), m \in 1..Len(launches[k]) :
            (j # k \/ i # m) => launches[j][i].cmd.name # launches[k][m].cmd.name

\* the entries of the filesystem in the ws and out directories of job j
Shared(j) ==
    {p \in DOMAIN fs :
        \/ IsPrefix(job[j].local_ws_dir, p)
        \/ IsPrefix(job[j].local_out_dir, p)}

\* C21 Shared workspace: every docker run of a job mounts the job's host ws
\* directory on /workspace and its host out directory on /output, both rw;
\* and no step of the Runner (anything but a command run in a container)
\* removes or changes an entry of these two directories, the directories
\* themselves included, other than its own out/_last_step.txt: what the
\* steps so far left is there for the next step.
C21_SharedWorkspace ==
    /\ [](\A j \in Jobs : \A i \in DOMAIN launches[j] :
            /\ launches[j][i].cmd.workspace = job[j].host_ws_dir
            /\ launches[j][i].cmd.workspace_mode = "rw"
            /\ launches[j][i].cmd.output = job[j].host_out_dir
            /\ launches[j][i].cmd.output_mode = "rw")
    /\ [][\A j \in Jobs :
            (job[j] # NoJob /\ ops' = ops) =>
                \A p \in Shared(j) \ {Join(job[j].local_out_dir, LastStepTxt)} :
                    p \in DOMAIN fs' /\ fs'[p] = fs[p]]_vars

\* the second step of a job runs while the file the first step wrote to
\* /output is there
C21_Witness ==
    \E j \in Jobs :
        /\ pc[j] = "wait"
        /\ Len(launches[j]) = 2
        /\ \E c \in Own(j) : c.step = 2 /\ c.output = launches[j][1].cmd.output
        /\ Exists(fs, Join(job[j].local_out_dir, ResultTxt))
        /\ fs[Join(job[j].local_out_dir, ResultTxt)] = FileEntry(UserData(j))

\* the policies docker run --pull knows
Policies == {<<"always">>, <<"missing">>, <<"never">>}

\* C22 Image pull policy: when MATRIXLAB_DOCKER_PULL is one of always,
\* missing and never (blanks around it aside), every docker run of the job
\* carries --pull with that value; when it is not set, every docker run
\* carries --pull missing; and all docker runs of a job carry the same.
\* (A value that is no policy makes the Runner pass no --pull at all, which
\* the runtime treats as missing; the statement does not speak of it.)
C22_PullPolicy ==
    \A j \in Jobs : \A i \in DOMAIN launches[j] :
        LET v == environ.MATRIXLAB_DOCKER_PULL
            pull == launches[j][i].cmd.pull
        IN  /\ v = None => pull = Some(<<"missing">>)
            /\ \A q \in Policies :
                  (v # None /\ v[1] \in {q, <<" ">> \o q \o <<" ">>}) => pull = Some(q)
            /\ \A k \in DOMAIN launches[j] : launches[j][k].cmd.pull = pull

\* both steps of a job were launched with --pull never
C22_Witness ==
    \E j \in Jobs :
        /\ environ.MATRIXLAB_DOCKER_PULL = Some(<<"never">>)
        /\ Len(launches[j]) = 2
        /\ \A i \in 1..2 : launches[j][i].cmd.pull = Some(<<"never">>)

\* how the shell reads a line: the words between the blanks that are not
\* quoted, the quotes taken off; mode is the quote that is open, bare says
\* that a $ or ; was read where the shell acts on it
ShellStart == [words |-> <<>>, cur |-> <<>>, open |-> FALSE, mode |-> "", bare |-> FALSE]

ShellToken(st, t) ==
    IF st.mode = "'"
    THEN IF t = "'" THEN [st EXCEPT !.mode = ""] ELSE [st EXCEPT !.cur = Append(@, t)]
    ELSE IF st.mode = "\""
    THEN IF t = "\"" THEN [st EXCEPT !.mode = ""]
         ELSE [st EXCEPT !.cur = Append(@, t), !.bare = @ \/ t = "$"]
    ELSE IF t \in {"'", "\""} THEN [st EXCEPT !.mode = t, !.open = TRUE]
    ELSE IF t = " "
    THEN IF st.open
         THEN [st EXCEPT !.words = Append(@, st.cur), !.cur = <<>>, !.open = FALSE]
         ELSE st
    ELSE [st EXCEPT !.cur = Append(@, t), !.open = TRUE, !.bare = @ \/ t \in {"$", ";"}]

RECURSIVE ShellRead(_, _)
ShellRead(line, st) ==
    IF line = <<>>
    THEN IF st.open THEN [st EXCEPT !.words = Append(@, st.cur), !.open = FALSE] ELSE st
    ELSE ShellRead(Tail(line), ShellToken(st, Head(line)))

\* the line is one export of every entry of env, in order, each read by
\* the shell as key=value with the value as the client gave it
ExportsEnv(line, env) ==
    LET r == ShellRead(line, ShellStart)
    IN  /\ r.mode = "" /\ ~r.bare
        /\ r.words = << <<"export">> >> \o
                     [i \in 1..Len(env) |-> env[i].key \o <<"=">> \o env[i].value]

\* the lines of a script that are not empty
NonEmpty(script) == SelectSeq(script, LAMBDA l : l # <<>>)

\* the script is the four fixed lines, the export line if env is not
\* empty, the echo of the banner and the command, in this order
Preamble(script, step, banner) ==
    LET ls == NonEmpty(script)
        e == IF step.env = <<>> THEN 0 ELSE 1
    IN  /\ Len(ls) = 6 + e
        /\ SubSeq(ls, 1, 4) = << <<"set -euo pipefail">>, <<"mkdir -p /output">>,
                                 <<"export HOME=/workspace">>,
                                 <<"export OUTPUT_DIR=/output">> >>
        /\ e = 1 => ExportsEnv(ls[5], step.env)
        /\ ls[5 + e] = <<"echo \"">> \o banner \o <<"\"">>
        /\ ls[6 + e] = step.command

\* C23 as stated: the script of every docker run is the preamble with the
\* banner == step: <name> == and the step's command last.
C23_Preamble ==
    \A j \in Jobs : \A i \in DOMAIN launches[j] :
        LET step == req[j].steps[launches[j][i].step]
        IN  Preamble(launches[j][i].script, step,
                     <<"== step: ">> \o step.name \o <<" ==">>)

\* C23 Step script preamble, amended: the script of every docker run
\* consists, in this order, of set -euo pipefail, mkdir -p /output, export
\* HOME=/workspace, export OUTPUT_DIR=/output, one export line with every
\* entry of the step's env, shell-quoted (no export line when env is
\* empty), the banner echo "== Matrix Lab step: <name> ==", and then the
\* step's command unchanged; the command never precedes a preamble line.
C23_PreambleMatrixLab ==
    \A j \in Jobs : \A i \in DOMAIN launches[j] :
        LET step == req[j].steps[launches[j][i].step]
        IN  Preamble(launches[j][i].script, step,
                     <<"== Matrix Lab step: ">> \o step.name \o <<" ==">>)

\* a step whose env has a value with a quote in it was launched
C23_Witness ==
    \E j \in Jobs : \E i \in DOMAIN launches[j] :
        LET step == req[j].steps[launches[j][i].step]
        IN  /\ \E k \in DOMAIN step.env : "'" \in {step.env[k].value[n] : n \in DOMAIN step.env[k].value}
            /\ step.command = DefaultCommand
            /\ launches[j][i].script[9] = DefaultCommand

\* the commands of kind cmd that the probe ran for image k, by their place
\* in the log
Ran(cmd, k) ==
    {n \in DOMAIN probe.log :
        probe.log[n].cmd = cmd /\ probe.log[n].image = SandboxImages[k].image}

\* the runtime answered docker version with exit code 0
RuntimeAvailable ==
    probe.log # <<>> /\ probe.log[1].exc = "" /\ probe.log[1].code = 0

\* C24 Capability Probe: the entries are those of the images in order, one
\* docker image inspect each; an image whose inspect exits non-zero gets
\* ok=false with an error and no docker run, and the loop goes on to the
\* next image; an image that exists gets one docker run and ok exactly
\* when it exits 0.  With the runtime available the status is ok exactly
\* when every entry so far is ok and degraded exactly when one is not, and
\* a degraded status stays degraded; with the runtime unavailable the
\* probe returns status error, an error text and no entries.
C24_CapabilityProbe ==
    /\ [](/\ \A k \in DOMAIN probe.sandboxes :
                LET e == probe.sandboxes[k]
                IN  /\ e.name = SandboxImages[k].name
                    /\ Cardinality(Ran("inspect", k)) = 1
                    /\ \A n \in Ran("inspect", k) :
                          /\ probe.log[n].exc = ""
                          /\ probe.log[n].code # 0 =>
                                /\ ~e.ok /\ e.error # <<>>
                                /\ Ran("run", k) = {}
                          /\ probe.log[n].code = 0 =>
                                /\ Cardinality(Ran("run", k)) = 1
                                /\ \A m \in Ran("run", k) :
                                      e.ok <=> probe.log[m].code = 0
          /\ probe.pc \in {"inspect", "run"} => probe.i = Len(probe.sandboxes) + 1
          /\ (probe.pc = "done" /\ probe.raised = None /\ RuntimeAvailable) =>
                Len(probe.sandboxes) = Len(SandboxImages)
          /\ (probe.pc # "idle" /\ RuntimeAvailable) =>
                /\ probe.status = "ok" <=>
                      \A k \in DOMAIN probe.sandboxes : probe.sandboxes[k].ok
                /\ probe.status = "degraded" <=>
                      \E k \in DOMAIN probe.sandboxes : ~probe.sandboxes[k].ok
          /\ (probe.pc # "idle" /\ ~RuntimeAvailable) =>
                /\ probe.pc = "done" /\ probe.http = 200
                /\ probe.status = "error" /\ probe.error # <<>>
                /\ probe.sandboxes = <<>>
                /\ Len(probe.log) = 1)
    /\ [][probe.status = "degraded" => probe'.status = "degraded"]_vars

\* the probe returned degraded: the second image is missing, the others,
\* probed after it, are ok
C24_Witness ==
    /\ probe.pc = "done" /\ probe.http = 200
    /\ probe.status = "degraded"
    /\ Len(probe.sandboxes) = 5
    /\ ~probe.sandboxes[2].ok /\ probe.sandboxes[2].exit_code = None
    /\ \A k \in {1, 3, 4, 5} : probe.sandboxes[k].ok

\* C28 The probe always returns: when GET /sandboxes/health is over it has
\* answered 200 with a status and, the runtime being available, an entry
\* for each of the images, whatever docker image inspect and docker run
\* did; no exception left sandbox_selftest.
C28_ProbeReturns ==
    probe.pc = "done" =>
        /\ probe.raised = None
        /\ probe.http = 200
        /\ RuntimeAvailable => Len(probe.sandboxes) = Len(SandboxImages)

\* the first health check of main() found the Runner down
RunnerDown == boot.checks # <<>> /\ boot.checks[1] = "down"

\* the health checks of wait_for_runner
Polls == SubSeq(boot.checks, 2, Len(boot.checks))

\* C30 Bootstrap start-up protocol: the MCP server is exec'ed, and
\* exec_mcp reached, only when the last health check succeeded; a first
\* check that succeeds is the only check and no services are started; with
\* the Runner down and autostart off bootstrap exits with 2, and only
\* then, having started no services and no MCP server; services are
\* started at most once, only with the Runner down and autostart on, and
\* before any poll; there are at most 90 polls; and when the run is over
\* and no poll succeeded the exit code is 1 and the MCP server was not
\* exec'ed.
C30_Bootstrap ==
    /\ (boot.execd \/ boot.pc \in {"exec", "mcp"}) =>
          boot.checks # <<>> /\ Last(boot.checks) = "ok"
    /\ (boot.checks # <<>> /\ boot.checks[1] = "ok") =>
          boot.ups = 0 /\ Len(boot.checks) = 1
    /\ (RunnerDown /\ ~boot.autostart) =>
          /\ boot.pc = "exit" /\ boot.rc = Some(2)
          /\ boot.ups = 0 /\ ~boot.execd /\ Len(boot.checks) = 1
    /\ boot.rc = Some(2) => RunnerDown /\ ~boot.autostart
    /\ boot.ups <= 1
    /\ boot.ups = 1 => RunnerDown /\ boot.autostart
    /\ Polls # <<>> => boot.ups = 1
    /\ boot.pc = "poll" => boot.ups = 1
    /\ Len(Polls) <= Retries
    /\ (RunnerDown /\ boot.autostart /\ boot.pc \in {"exit", "mcp"}
            /\ \A n \in DOMAIN Polls : Polls[n] # "ok") =>
          boot.pc = "exit" /\ boot.rc = Some(1) /\ ~boot.execd

\* bootstrap started the services, polled 90 times in vain and exited with 1
C30_Witness ==
    /\ boot.pc = "exit" /\ boot.rc = Some(1)
    /\ boot.autostart /\ boot.ups = 1
    /\ Len(Polls) = Retries
    /\ \A n \in DOMAIN Polls : Polls[n] = "down"

\* the temporary archives there are
ZipFiles == {p \in DOMAIN fs : fs[p].kind = "file" /\ fs[p].data = ZipData}

\* C25 Temporary archive removed: whenever the Runner is not inside
\* _zip_dir_to_base64, no temporary .zip exists, whether the packer
\* returned or raised; the name mkstemp can give it is next to out/, not
\* under it, and no archive has the temporary archive among its entries.
C25_TempZipRemoved ==
    /\ ZipFiles = {}
    /\ \A j \in Jobs :
          /\ job[j] # NoJob =>
                \A k \in DOMAIN TmpTok :
                    LET zip_path == TmpZip(Dirname(job[j].local_out_dir), TmpTok[k])
                    IN  /\ ~IsPrefix(job[j].local_out_dir, zip_path)
                        /\ Dirname(zip_path) = Dirname(job[j].local_out_dir)
          /\ Returned(j) =>
                \A rel \in DOMAIN Archive(j) : Archive(j)[rel] # ZipData

\* the packer raised on a dangling link, and left no temporary archive
C25_Witness ==
    \E j \in Jobs :
        /\ pc[j] = "done"
        /\ raised[j] = Some(<<"FileNotFoundError", "z.write">>)
        /\ Exists(fs, Join(job[j].local_out_dir, LinkName))
        /\ ZipFiles = {}

\* the preflight of job j raised
PreflightFailed(j) ==
    raised[j] # None /\ raised[j][1] \in {NoBinary, NoSocket, NoDaemon}

\* C26 Preflight gates the job: a job has a job_id only after its preflight
\* looked at the runtime; and when the preflight raised, the job has no
\* job_id and no directories, the Runner has written nothing (no job
\* directory, no marker), no command was launched or killed, no container
\* exists and there are no results: the request ends with the 500.
C26_PreflightGates ==
    \A j \in Jobs :
        /\ job[j] # NoJob => checks[j] # <<>> /\ ~PreflightFailed(j)
        /\ PreflightFailed(j) =>
              /\ job[j] = NoJob
              /\ fs = Fs0 /\ Written = {}
              /\ launches[j] = <<>> /\ kills[j] = <<>> /\ results[j] = <<>>
              /\ containers = {}
              /\ pc[j] = "done" /\ http[j].status = 500

\* a request with two steps met a daemon that does not answer
C26_Witness ==
    \E j \in Jobs :
        /\ raised[j] = Some(NoDaemon)
        /\ Len(req[j].steps) = 2
        /\ job[j] = NoJob /\ fs = Fs0

\* C27 No container outlives its job: once run_job has returned its
\* response, archive included, none of the containers of the job exists
\* any more, also when a step timed out and docker kill did not remove
\* the container.
C27_NoContainerOutlivesJob ==
    \A j \in Jobs :
        Returned(j) => \A c \in containers : c.job # j

\* C29 Empty steps: a request with no steps that is answered 200 has a job
\* directory with its out directory, launched nothing, and carries no
\* results and an archive with _runner.txt and without _last_step.txt.
C29_EmptySteps ==
    \A j \in Jobs :
        (Returned(j) /\ req[j].steps = <<>>) =>
            /\ job[j] # NoJob /\ IsDir(fs, job[j].local_out_dir)
            /\ launches[j] = <<>>
            /\ http[j].results = <<>>
            /\ http[j].artifacts_zip_base64 # None
            /\ RunnerTxt \in DOMAIN Archive(j)
            /\ LastStepTxt \notin DOMAIN Archive(j)

====
